---------------------------- MODULE Spec2Model ----------------------------
(***************************************************************************)
(* A model of the GNSS frequency engine of gnss_frequencies.py.            *)
(*                                                                         *)
(* Numbers.  The program computes with Python floats (IEEE 754 binary64)   *)
(* and so does the model: a float is the record                            *)
(*     [kind |-> "finite", s |-> sign, n |-> mantissa, e |-> exponent]     *)
(* of value (-1)^s * n * 2^e, with a mantissa of exactly 53 bits (or 0),   *)
(* and every operation rounds its exact result to the nearest such number, *)
(* ties to even.  Mantissas do not fit TLC's 32-bit integers: a natural    *)
(* number is a sequence of 14-bit limbs, least significant first.  The     *)
(* same records with a mantissa of any length are the exact numbers in     *)
(* which the properties compare results with the real-number value of a    *)
(* formula.  Overflow to infinity and subnormal numbers lie outside the    *)
(* magnitudes modelled.  float('inf') and a raised ZeroDivisionError are   *)
(* the records INF and ZeroDivisionError.  A Python int is an integer.     *)
(* A Python dict is a sequence of <<key, value>> pairs in insertion order. *)
(*                                                                         *)
(* A value that is used more than once is bound by a set of one element,   *)
(* {e(v) : v \in {x}}, so that it is computed once, as an assignment to a   *)
(* local variable is.                                                      *)
(***************************************************************************)
EXTENDS Integers, Sequences, FiniteSets, TLC

VARIABLES
    call,       \* the last engine call made directly: [op, args.., result]
    run,        \* the activation of calculate_orbital_peaks being executed
    heap,       \* the dict objects the tide tables live in, by object id
    frame,      \* the activation of create_gnss_frequencies being executed
    held,       \* the catalogues the caller holds, as they are now
    snaps       \* what each call of create_gnss_frequencies returned, as returned

vars == <<call, run, heap, frame, held, snaps>>

-----------------------------------------------------------------------------
(* Natural numbers of any size                                             *)

Abs(x) == IF x < 0 THEN -x ELSE x
Max(a, b) == IF a < b THEN b ELSE a
Min(a, b) == IF a < b THEN a ELSE b
SetMax(S) == CHOOSE i \in S : \A j \in S : j <= i
\* the element of a set of one element
Only(S) == CHOOSE v \in S : TRUE

\* range(a, b) as the sequence a, a+1, .., b-1
PyRange(a, b) == [i \in 1..Max(b - a, 0) |-> a + i - 1]

LimbBits == 14
Base == 2 ^ LimbBits
MantBits == 53

\* a natural number is its limbs, least significant first, the last one not 0;
\* 0 is <<>>
NTrim(x) ==
    LET nz == {i \in 1..Len(x) : x[i] # 0}
    IN  IF nz = {} THEN <<>> ELSE SubSeq(x, 1, SetMax(nz))
\* an integer 0 <= k < 2^31
NOfInt(k) == NTrim(<<k % Base, (k \div Base) % Base, k \div (Base * Base)>>)
Limb(x, i) == IF 1 <= i /\ i <= Len(x) THEN x[i] ELSE 0
NToInt(x) == Limb(x, 1) + Limb(x, 2) * Base + Limb(x, 3) * Base * Base
\* -1, 0 or 1 as x <, =, > y
NCmp(x, y) ==
    IF Len(x) # Len(y) THEN (IF Len(x) < Len(y) THEN -1 ELSE 1)
    ELSE LET d == {i \in 1..Len(x) : x[i] # y[i]}
         IN  IF d = {} THEN 0
             ELSE IF x[SetMax(d)] < y[SetMax(d)] THEN -1 ELSE 1
\* x + y: limb i takes a carry when a limb below it overflows and every limb
\* between the two is full
NAdd(x, y) ==
    IF x = <<>> THEN y
    ELSE IF y = <<>> THEN x
    ELSE LET n == Max(Len(x), Len(y)) + 1
             s(i) == Limb(x, i) + Limb(y, i)
             c(i) == IF \E j \in 1..(i - 1) :
                           s(j) >= Base /\ \A k \in (j + 1)..(i - 1) : s(k) = Base - 1
                     THEN 1 ELSE 0
         IN  NTrim([i \in 1..n |-> (s(i) + c(i)) % Base])
\* x - y for x >= y: limb i lends when a limb below it is too small and the
\* limbs between the two are equal
NSub(x, y) ==
    IF y = <<>> THEN x
    ELSE LET b(i) == IF \E j \in 1..(i - 1) :
                           x[j] < Limb(y, j) /\ \A k \in (j + 1)..(i - 1) : x[k] = Limb(y, k)
                     THEN 1 ELSE 0
         IN  NTrim([i \in 1..Len(x) |-> (x[i] - Limb(y, i) - b(i)) % Base])
NShiftLimbs(x, n) ==
    IF x = <<>> THEN <<>> ELSE [i \in 1..n |-> 0] \o x
\* x * k for 0 <= k <= Base: the low halves of the limb products plus the
\* high halves one limb up
NMulSmall(x, k) ==
    IF k = 0 \/ x = <<>> THEN <<>>
    ELSE NAdd(NTrim([i \in 1..Len(x) |-> (x[i] * k) % Base]),
              NShiftLimbs(NTrim([i \in 1..Len(x) |-> (x[i] * k) \div Base]), 1))
\* x times the limbs lo..hi of y, each at its place
RECURSIVE NMulRange(_, _, _, _)
NMulRange(x, y, lo, hi) ==
    IF lo = hi THEN NShiftLimbs(NMulSmall(x, y[lo]), lo - 1)
    ELSE NAdd(NMulRange(x, y, lo, (lo + hi) \div 2),
              NMulRange(x, y, (lo + hi) \div 2 + 1, hi))
NMul(x, y) == IF x = <<>> \/ y = <<>> THEN <<>> ELSE NMulRange(x, y, 1, Len(y))
\* x * 2^n and floor(x / 2^n)
NShl(x, n) == NShiftLimbs(NMulSmall(x, 2 ^ (n % LimbBits)), n \div LimbBits)
NShr(x, n) ==
    IF x = <<>> THEN <<>> ELSE
    LET w == n \div LimbBits
        r == n % LimbBits
        y == IF w >= Len(x) THEN <<>> ELSE SubSeq(x, w + 1, Len(x))
    IN  NTrim([i \in 1..Len(y) |->
                  (y[i] \div 2 ^ r) + (Limb(y, i + 1) % 2 ^ r) * 2 ^ (LimbBits - r)])
NBitLen(x) ==
    IF x = <<>> THEN 0
    ELSE LimbBits * (Len(x) - 1)
           + (CHOOSE b \in 1..LimbBits : 2 ^ (b - 1) <= x[Len(x)] /\ x[Len(x)] < 2 ^ b)
NIsOdd(x) == x # <<>> /\ x[1] % 2 = 1

-----------------------------------------------------------------------------
(* Exact numbers and binary64                                              *)

\* (-1)^s * n * 2^e; zero has sign and exponent 0
E(s, n, e) == [kind |-> "finite", s |-> IF n = <<>> THEN 0 ELSE s, n |-> n,
               e |-> IF n = <<>> THEN 0 ELSE e]
INF == [kind |-> "inf"]
ZeroDivisionError == [kind |-> "ZeroDivisionError"]
EZero == E(0, <<>>, 0)
ENeg(a) == E(1 - a.s, a.n, a.e)
EAbs(a) == E(0, a.n, a.e)
EOfInt(k) == E(IF k < 0 THEN 1 ELSE 0, NOfInt(Abs(k)), 0)
EAdd(a, b) ==
    IF a.n = <<>> THEN b
    ELSE IF b.n = <<>> THEN a
    ELSE LET e == Min(a.e, b.e)
         IN  Only({IF a.s = b.s THEN E(a.s, NAdd(x, y), e)
                   ELSE IF x = y THEN EZero
                   ELSE IF NCmp(x, y) > 0 THEN E(a.s, NSub(x, y), e)
                   ELSE E(b.s, NSub(y, x), e) :
                      x \in {NShl(a.n, a.e - e)}, y \in {NShl(b.n, b.e - e)}})
ESub(a, b) == EAdd(a, ENeg(b))
EMul(a, b) == E((a.s + b.s) % 2, NMul(a.n, b.n), a.e + b.e)
ESign(a) == IF a.n = <<>> THEN 0 ELSE IF a.s = 1 THEN -1 ELSE 1
ECmp(a, b) == ESign(ESub(a, b))

\* the binary64 number nearest to a, ties to the even mantissa
Round(a) ==
    IF a.n = <<>> THEN EZero
    ELSE LET L == NBitLen(a.n)
             d == L - MantBits
         IN  IF L <= MantBits THEN E(a.s, NShl(a.n, MantBits - L), a.e - (MantBits - L))
             ELSE Only({Only({IF NBitLen(q1) > MantBits
                              THEN E(a.s, NShr(q1, 1), a.e + d + 1)
                              ELSE E(a.s, q1, a.e + d) :
                                 q1 \in {IF c > 0 \/ (c = 0 /\ NIsOdd(q))
                                         THEN NAdd(q, <<1>>) ELSE q}}) :
                           q \in {NShr(a.n, d)},
                           c \in {NCmp(NShl(NSub(a.n, NShl(NShr(a.n, d), d)), 1),
                                       NShl(<<1>>, d))}})

\* an operand whose evaluation raised: the operation raises the same
Raised(a) == a.kind = "ZeroDivisionError"

\* float(k), x + y, x - y, x * y
FOfInt(k) == Round(EOfInt(k))
FAdd(a, b) == IF Raised(a) THEN a ELSE IF Raised(b) THEN b ELSE Round(EAdd(a, b))
FSub(a, b) == IF Raised(a) THEN a ELSE IF Raised(b) THEN b ELSE Round(ESub(a, b))
FMul(a, b) == IF Raised(a) THEN a ELSE IF Raised(b) THEN b ELSE Round(EMul(a, b))

\* The next LimbBits bits of R / D for R < D, D of MantBits bits: a digit
\* estimated from the leading bits, never too large and at most 3 too small,
\* then corrected.  <<digit, remainder>>
DivDigit(R, D) ==
    LET top == MantBits - LimbBits - 1
    IN  Only({Only({<<est + k, NSub(R1, NMulSmall(D, k))>> :
                       k \in {CHOOSE j \in 0..3 : /\ NCmp(R1, NMulSmall(D, j)) >= 0
                                                  /\ NCmp(R1, NMulSmall(D, j + 1)) < 0}}) :
                 <<est, R1>> \in
                    {Only({<<g, NSub(NShiftLimbs(R, 1), NMulSmall(D, g))>> :
                              g \in {(NToInt(NShr(R, top)) * Base)
                                        \div (NToInt(NShr(D, top)) + 1)}})}})

RECURSIVE DivDigits(_, _, _, _)
DivDigits(R, D, Q, i) ==
    IF i = 0 THEN <<Q, R>>
    ELSE IF R = <<>> THEN <<NShiftLimbs(Q, i), R>>
    ELSE Only({IF d[2] = <<>> THEN <<NShiftLimbs(NTrim(<<d[1]>> \o Q), i - 1), <<>> >>
               ELSE DivDigits(d[2], D, NTrim(<<d[1]>> \o Q), i - 1) :
                  d \in {DivDigit(R, D)}})

\* digits of the quotient after the leading bit
DivSteps == 4

\* a / b: the quotient to DivSteps digits and a last bit that says whether
\* anything is left over, rounded
FDiv(a, b) ==
    IF Raised(a) THEN a
    ELSE IF Raised(b) THEN b
    ELSE IF b.n = <<>> THEN ZeroDivisionError
    ELSE IF a.n = <<>> THEN EZero
    ELSE LET ge == NCmp(a.n, b.n) >= 0
             e == a.e - b.e - (DivSteps * LimbBits + 1)
         IN  Only({Round(E((a.s + b.s) % 2,
                           IF qr[2] = <<>> THEN NShl(qr[1], 1)
                           ELSE NAdd(NShl(qr[1], 1), <<1>>),
                           e)) :
                      qr \in {DivDigits(IF ge THEN NSub(a.n, b.n) ELSE a.n, b.n,
                                        IF ge THEN <<1>> ELSE <<>>, DivSteps)}})

\* math.floor(a), an int
FFloor(a) ==
    IF a.n = <<>> THEN 0
    ELSE IF a.e >= 0 THEN (IF a.s = 1 THEN -NToInt(NShl(a.n, a.e)) ELSE NToInt(NShl(a.n, a.e)))
    ELSE Only({IF a.s = 0 THEN NToInt(q)
               ELSE IF NShl(q, -a.e) = a.n THEN -NToInt(q) ELSE -NToInt(q) - 1 :
                  q \in {NShr(a.n, -a.e)}})

\* round(a): the nearest int, ties to the even one
PyRound(a) ==
    IF a.n = <<>> THEN 0
    ELSE IF a.e >= 0 THEN (IF a.s = 1 THEN -NToInt(NShl(a.n, a.e)) ELSE NToInt(NShl(a.n, a.e)))
    ELSE Only({Only({IF a.s = 1 THEN -k ELSE k :
                        k \in {NToInt(q) + (IF c > 0 \/ (c = 0 /\ NIsOdd(q)) THEN 1 ELSE 0)}}) :
                  q \in {NShr(a.n, -a.e)},
                  c \in {NCmp(NShl(NSub(a.n, NShl(NShr(a.n, -a.e), -a.e)), 1),
                              NShl(<<1>>, -a.e))}})

FAbs(a) == IF Raised(a) THEN a ELSE EAbs(a)
FLess(a, b) == ECmp(a, b) < 0
FLeq(a, b) == ECmp(a, b) <= 0
IsZero(a) == a.n = <<>>

\* the float a decimal literal n * 10^-p denotes, 10^p < 2^31
Lit(n, p) == FDiv(FOfInt(n), FOfInt(10 ^ p))

-----------------------------------------------------------------------------
(* Python dicts: <<key, value>> pairs in insertion order                   *)

DictKeys(d) == {d[i][1] : i \in 1..Len(d)}
DictHas(d, k) == \E i \in 1..Len(d) : d[i][1] = k
DictGet(d, k) == d[CHOOSE i \in 1..Len(d) : d[i][1] = k][2]

\* d[k] = v: a new key is appended, an old key keeps its place.
DictSet(d, k, v) ==
    IF DictHas(d, k)
    THEN [i \in 1..Len(d) |-> IF d[i][1] = k THEN <<k, v>> ELSE d[i]]
    ELSE Append(d, <<k, v>>)

\* d[k1] = {k2: v}: the dict under k1 is replaced
DictSet2Replacing(d, k1, k2, v) == DictSet(d, k1, << <<k2, v>> >>)

\* d[k1][k2] = v
DictSet2(d, k1, k2, v) == DictSet(d, k1, DictSet(DictGet(d, k1), k2, v))

-----------------------------------------------------------------------------
(* Alias arithmetic                                                        *)

\* Drops the abs() of line 67.
AliasFrequencySigned(freq, reference_freq) ==
    IF IsZero(reference_freq)
    THEN FSub(freq, FOfInt(PyRound(freq)))
    ELSE FSub(freq, FMul(FOfInt(PyRound(FDiv(freq, reference_freq))), reference_freq))

\* Folds with floor() where line 67 rounds.
AliasFrequencyFloor(freq, reference_freq) ==
    IF IsZero(reference_freq)
    THEN FAbs(FSub(freq, FOfInt(FFloor(freq))))
    ELSE FAbs(FSub(freq, FMul(FOfInt(FFloor(FDiv(freq, reference_freq))), reference_freq)))

calculate_alias_frequency(freq, reference_freq) ==
    IF IsZero(reference_freq)
    THEN FAbs(FSub(freq, FOfInt(PyRound(freq))))
    ELSE LET ratio == FDiv(freq, reference_freq)
         IN  FAbs(FSub(freq, FMul(FOfInt(PyRound(ratio)), reference_freq)))

\* Takes the sampling interval in hours for T where line 83 divides by 24.
SubdailyAliasingHourly(freq_cpd, sampling_interval_hours) ==
    Only({IF IsZero(T) THEN ZeroDivisionError
          ELSE FAbs(FSub(freq_cpd,
                         FMul(FDiv(FOfInt(1), T),
                              FOfInt(FFloor(FAdd(FMul(freq_cpd, T), Lit(5, 1))))))) :
             T \in {FOfInt(sampling_interval_hours)}})

\* Truncates with floor(x) where line 87 takes floor(x + 0.5).
SubdailyAliasingTruncating(freq_cpd, sampling_interval_hours) ==
    Only({IF IsZero(T) THEN ZeroDivisionError
          ELSE FAbs(FSub(freq_cpd,
                         FMul(FDiv(FOfInt(1), T), FOfInt(FFloor(FMul(freq_cpd, T)))))) :
             T \in {FDiv(FOfInt(sampling_interval_hours), FOfInt(24))}})

\* sampling_interval_hours is an int
calculate_subdaily_aliasing(freq_cpd, sampling_interval_hours) ==
    Only({IF IsZero(T) THEN ZeroDivisionError
          ELSE FAbs(FSub(freq_cpd,
                         FMul(FDiv(FOfInt(1), T),
                              FOfInt(FFloor(FAdd(FMul(freq_cpd, T), Lit(5, 1))))))) :
             T \in {FDiv(FOfInt(sampling_interval_hours), FOfInt(24))}})

-----------------------------------------------------------------------------
(* Orbital period formula                                                  *)

\* 1e-10
Eps == FDiv(FOfInt(1), FMul(FOfInt(10 ^ 5), FOfInt(10 ^ 5)))

\* Divides n by the satellite period and m by the Earth period.
OrbitalPeriodSwapped(n, m, T_S, T_E) ==
    IF n = 0 /\ m = 0 THEN INF
    ELSE IF IsZero(T_E) \/ IsZero(T_S) THEN ZeroDivisionError
    ELSE Only({IF FLess(FAbs(denominator), Eps) THEN INF
               ELSE FAbs(FDiv(FOfInt(1), denominator)) :
                  denominator \in {FAdd(FDiv(FOfInt(n), T_S), FDiv(FOfInt(m), T_E))}})

\* Leaves out both guards (lines 105-106 and 109-110).
OrbitalPeriodUnguarded(n, m, T_S, T_E) ==
    IF IsZero(T_E) \/ IsZero(T_S) THEN ZeroDivisionError
    ELSE Only({IF IsZero(denominator) THEN ZeroDivisionError
               ELSE FAbs(FDiv(FOfInt(1), denominator)) :
                  denominator \in {FAdd(FDiv(FOfInt(n), T_E), FDiv(FOfInt(m), T_S))}})

\* n and m are ints, the periods floats
calculate_orbital_period(n, m, T_S, T_E) ==
    IF n = 0 /\ m = 0 THEN INF
    ELSE IF IsZero(T_E) \/ IsZero(T_S) THEN ZeroDivisionError
    ELSE Only({IF FLess(FAbs(denominator), Eps) THEN INF
               ELSE FAbs(FDiv(FOfInt(1), denominator)) :
                  denominator \in {FAdd(FDiv(FOfInt(n), T_E), FDiv(FOfInt(m), T_S))}})

-----------------------------------------------------------------------------
(* Harmonic generator                                                      *)

\* Stops one harmonic short: range(1, max_harmonic).
HarmonicsShort(base_freq, max_harmonic) ==
    LET r == PyRange(1, max_harmonic)
    IN  [j \in 1..Len(r) |-> <<r[j], FMul(FOfInt(r[j]), base_freq)>>]

calculate_draconitic_harmonics(base_freq, max_harmonic) ==
    LET r == PyRange(1, max_harmonic + 1)
    IN  [j \in 1..Len(r) |-> <<r[j], FMul(FOfInt(r[j]), base_freq)>>]

calculate_annual_harmonics(base_freq, max_harmonic) ==
    LET r == PyRange(1, max_harmonic + 1)
    IN  [j \in 1..Len(r) |-> <<r[j], FMul(FOfInt(r[j]), base_freq)>>]

-----------------------------------------------------------------------------
(* Peak classifier                                                         *)

KeepTop == 10
MaxMult == 4
DefaultMinHarm == -6
DefaultMaxHarm == 7

\* the label without the sign of k
LabelUnsigned(mult, k) ==
    ToString(mult) \o "f_u" \o ToString(Abs(k)) \o "f_d"

\* f"{mult}f_u{k:+d}f_d"
Label(mult, k) ==
    ToString(mult) \o "f_u" \o (IF k >= 0 THEN "+" ELSE "-") \o ToString(Abs(k)) \o "f_d"

\* the dict literal of lines 142-148
EmptyPeaks ==
    << <<"8d_peaks", <<>> >>, <<"4d_peaks", <<>> >>, <<"2-7d_peaks", <<>> >>,
       <<"2d_peaks", <<>> >>, <<"1d_peaks", <<>> >> >>

\* abs(combined_freq - floor(combined_freq)): the fractional part
CombinedAliasFloor(sun_arg_lat_freq, draconitic_freq, mult, k) ==
    Only({FAbs(FSub(combined_freq, FOfInt(FFloor(combined_freq)))) :
             combined_freq \in {FAdd(FMul(FOfInt(mult), sun_arg_lat_freq),
                                     FMul(FOfInt(k), draconitic_freq))}})

\* abs(combined_freq - round(combined_freq)) for one (mult, k)
CombinedAlias(sun_arg_lat_freq, draconitic_freq, mult, k) ==
    Only({FAbs(FSub(combined_freq, FOfInt(PyRound(combined_freq)))) :
             combined_freq \in {FAdd(FMul(FOfInt(mult), sun_arg_lat_freq),
                                     FMul(FOfInt(k), draconitic_freq))}})

\* 1.0 / alias_freq if alias_freq > 0 else float('inf'), in days
PeriodDays(alias_freq) ==
    IF FLess(EZero, alias_freq) THEN FDiv(FOfInt(1), alias_freq) ELSE INF

\* lo < period_days <= hi
Within(lo, period_days, hi) ==
    /\ period_days.kind = "finite"
    /\ FLess(lo, period_days)
    /\ FLeq(period_days, hi)

\* Tests the 2-day range before the multi-day range.
BandOfTwoDayFirst(period_days) ==
    IF Within(FOfInt(6), period_days, FOfInt(12)) THEN "8d_peaks"
    ELSE IF Within(FOfInt(3), period_days, FOfInt(6)) THEN "4d_peaks"
    ELSE IF Within(Lit(15, 1), period_days, Lit(25, 1)) THEN "2d_peaks"
    ELSE IF Within(FOfInt(2), period_days, Lit(35, 1)) THEN "2-7d_peaks"
    ELSE IF Within(Lit(5, 1), period_days, Lit(15, 1)) THEN "1d_peaks"
    ELSE "none"

\* the if/elif chain of lines 163-172: the band a period goes to
BandOf(period_days) ==
    IF Within(FOfInt(6), period_days, FOfInt(12)) THEN "8d_peaks"
    ELSE IF Within(FOfInt(3), period_days, FOfInt(6)) THEN "4d_peaks"
    ELSE IF Within(FOfInt(2), period_days, Lit(35, 1)) THEN "2-7d_peaks"
    ELSE IF Within(Lit(15, 1), period_days, Lit(25, 1)) THEN "2d_peaks"
    ELSE IF Within(Lit(5, 1), period_days, Lit(15, 1)) THEN "1d_peaks"
    ELSE "none"

\* one pass of the inner loop body, lines 157-172
PeaksIter(peaks, sun_arg_lat_freq, draconitic_freq, mult, k) ==
    Only({Only({IF band = "none" THEN peaks
                ELSE DictSet(peaks, band,
                             DictSet(DictGet(peaks, band), Label(mult, k), alias_freq)) :
                   band \in {BandOf(PeriodDays(alias_freq))}}) :
             alias_freq \in {CombinedAlias(sun_arg_lat_freq, draconitic_freq, mult, k)}})

\* Sorts ascending and reverses: equal values in reverse of their order.
SortedDescReversed(items) ==
    LET n == Len(items)
        Before(h, i) == \/ FLess(items[i][2], items[h][2])
                        \/ items[h][2] = items[i][2] /\ h > i
        place == [i \in 1..n |-> Cardinality({h \in 1..n : Before(h, i)}) + 1] \o <<>>
    IN  [p \in 1..n |-> items[CHOOSE i \in 1..n : place[i] = p]]

\* sorted(items, key=value, reverse=True): descending, equal values in
\* their original order; item i goes to the place after the items that are
\* larger and the equal ones that stand before it
SortedDesc(items) ==
    LET n == Len(items)
        Before(h, i) == \/ FLess(items[i][2], items[h][2])
                        \/ items[h][2] = items[i][2] /\ h < i
        place == [i \in 1..n |-> Cardinality({h \in 1..n : Before(h, i)}) + 1] \o <<>>
    IN  [p \in 1..n |-> items[CHOOSE i \in 1..n : place[i] = p]]

\* seq[:n]
Prefix(seq, n) == SubSeq(seq, 1, IF Len(seq) < n THEN Len(seq) ELSE n)

\* Sorts without cutting to the first ten.
PeaksFinishUncut(peaks) ==
    LET kept == SelectSeq(peaks, LAMBDA c : c[2] # <<>>)
    IN  [i \in 1..Len(kept) |-> <<kept[i][1], SortedDesc(kept[i][2])>>]

\* lines 174-182: empty categories deleted, the others sorted and cut
PeaksFinish(peaks) ==
    LET kept == SelectSeq(peaks, LAMBDA c : c[2] # <<>>)
    IN  [i \in 1..Len(kept) |-> <<kept[i][1], Prefix(SortedDesc(kept[i][2]), KeepTop)>>]

\* the passes of the inner loop, lines 154-172, for the positions lo..hi of
\* the harmonics in order: those of the first half, then those of the second
RECURSIVE PeaksInner(_, _, _, _, _, _, _)
PeaksInner(peaks, sun_arg_lat_freq, draconitic_freq, ks, mult, lo, hi) ==
    IF lo > hi THEN peaks
    ELSE IF lo = hi THEN PeaksIter(peaks, sun_arg_lat_freq, draconitic_freq, mult, ks[lo])
    ELSE Only({PeaksInner(half, sun_arg_lat_freq, draconitic_freq, ks, mult,
                          (lo + hi) \div 2 + 1, hi) :
                  half \in {PeaksInner(peaks, sun_arg_lat_freq, draconitic_freq, ks, mult,
                                       lo, (lo + hi) \div 2)}})

\* the outer loop of line 153 from mult on
RECURSIVE PeaksLoop(_, _, _, _, _)
PeaksLoop(peaks, sun_arg_lat_freq, draconitic_freq, ks, mult) ==
    IF mult > MaxMult THEN peaks
    ELSE Only({PeaksLoop(after, sun_arg_lat_freq, draconitic_freq, ks, mult + 1) :
                  after \in {PeaksInner(peaks, sun_arg_lat_freq, draconitic_freq, ks, mult,
                                        1, Len(ks))}})

calculate_orbital_peaks(sun_arg_lat_freq, draconitic_freq, harmonics_range) ==
    LET ks == PyRange(harmonics_range[1], harmonics_range[2])
    IN  PeaksFinish(PeaksLoop(EmptyPeaks, sun_arg_lat_freq, draconitic_freq, ks, 1))

-----------------------------------------------------------------------------
(* Orbital signals table                                                   *)

T_E == Lit(239345, 4)
T_S_GPS == Lit(11967, 3)
T_S_GLONASS == Lit(11264, 3)
T_S_GALILEO == Lit(14077, 3)

nm_combinations ==
    << <<-4, 1>>, <<-3, 1>>, <<-2, 1>>, <<-1, 1>>, <<0, 1>>, <<1, 1>>, <<2, 1>>,
       <<-4, 2>>, <<-3, 2>>, <<-2, 2>>, <<-1, 2>>, <<0, 2>>, <<1, 2>>, <<2, 2>>,
       <<-2, 3>>, <<-1, 3>>, <<0, 3>>, <<1, 3>>,
       <<-1, 4>>, <<0, 4>>, <<1, 4>> >>

constellation_periods ==
    << <<"gps", T_S_GPS>>, <<"glonass", T_S_GLONASS>>, <<"galileo", T_S_GALILEO>> >>

\* f"n{n}_m{m}"
SignalKey(n, m) == "n" \o ToString(n) \o "_m" \o ToString(m)

\* the loop body with the frequency taken per hour: 1 / P_nm
SignalsIterPerHour(signals, n, m, T_S, T_Earth) ==
    Only({IF P_nm.kind = "finite" /\ FLess(EZero, P_nm)
          THEN Only({DictSet(signals, SignalKey(n, m),
                             << <<"orbital_period_hours", P_nm>>,
                                <<"frequency_cpd", f[1]>>,
                                <<"aliased_frequency_cpd", f[2]>>,
                                <<"aliased_period_days",
                                  IF FLess(EZero, f[2]) THEN FDiv(FOfInt(1), f[2])
                                  ELSE INF>> >>) :
                        f \in {Only({<<freq_cpd, calculate_subdaily_aliasing(freq_cpd, 24)>> :
                                        freq_cpd \in {FDiv(FOfInt(1), P_nm)}})}})
          ELSE signals :
             P_nm \in {calculate_orbital_period(n, m, T_S, T_Earth)}})

\* the body of the inner loop, lines 240-255
SignalsIter(signals, n, m, T_S, T_Earth) ==
    Only({IF P_nm.kind = "finite" /\ FLess(EZero, P_nm)
          THEN Only({DictSet(signals, SignalKey(n, m),
                             << <<"orbital_period_hours", P_nm>>,
                                <<"frequency_cpd", f[1]>>,
                                <<"aliased_frequency_cpd", f[2]>>,
                                <<"aliased_period_days",
                                  IF FLess(EZero, f[2]) THEN FDiv(FOfInt(1), f[2])
                                  ELSE INF>> >>) :
                        f \in {Only({<<freq_cpd, calculate_subdaily_aliasing(freq_cpd, 24)>> :
                                        freq_cpd \in {FDiv(FOfInt(24), P_nm)}})}})
          ELSE signals :
             P_nm \in {calculate_orbital_period(n, m, T_S, T_Earth)}})

\* the passes of the loop of lines 238-255 for the combinations lo..hi in
\* order: those of the first half, then those of the second
RECURSIVE SignalsLoop(_, _, _, _, _, _)
SignalsLoop(signals, combos, lo, hi, T_S, T_Earth) ==
    IF lo > hi THEN signals
    ELSE IF lo = hi
    THEN SignalsIter(signals, combos[lo][1], combos[lo][2], T_S, T_Earth)
    ELSE Only({SignalsLoop(half, combos, (lo + hi) \div 2 + 1, hi, T_S, T_Earth) :
                  half \in {SignalsLoop(signals, combos, lo, (lo + hi) \div 2,
                                        T_S, T_Earth)}})

calculate_orbital_signals_table ==
    [c \in 1..Len(constellation_periods) |->
        <<constellation_periods[c][1],
          SignalsLoop(<<>>, nm_combinations, 1, Len(nm_combinations),
                      constellation_periods[c][2], T_E)>>]

-----------------------------------------------------------------------------
(* Catalogue assembly                                                      *)

earth_angular_speed == Lit(10027378, 7)
earth_orbital_freq == Lit(27378, 7)

gps_orbital_freq == Lit(20057014, 7)
gps_nodal_precession == Lit(-1075, 7)
gps_ground_repeat == Lit(10028507, 7)
gps_draconitic == Lit(28453, 7)

glonass_orbital_freq == Lit(21310182, 7)
glonass_nodal_precession == Lit(-922, 7)
glonass_ground_repeat == Lit(1253540, 7)
glonass_sun_arg_lat == Lit(21281882, 7)
glonass_draconitic == Lit(28300, 7)

galileo_orbital_freq == Lit(17267000, 7)
galileo_nodal_precession == Lit(-726, 7)
galileo_ground_repeat == Lit(1015706, 7)
galileo_sun_arg_lat == Lit(17238896, 7)
galileo_draconitic == Lit(28104, 7)

\* the dict literal of lines 294-303
TidesLiteral ==
    << <<"145_545", Lit(9293886, 7)>>, <<"OO_1", Lit(9294198, 7)>>,
       <<"O_1", Lit(9295357, 7)>>, <<"2N_2", Lit(18596904, 7)>>,
       <<"μ_2", Lit(18645473, 7)>>, <<"M_2", Lit(19322734, 7)>>,
       <<"M_m", Lit(362920, 7)>>, <<"M_f", Lit(732027, 7)>> >>

\* One tide table for the whole module, made by the first call and used
\* again by every later one.
NewTidesShared(h) ==
    IF h = <<>> THEN [heap |-> <<TidesLiteral>>, ref |-> 1]
    ELSE [heap |-> h, ref |-> 1]

\* Line 294 makes a new dict object on every call: the heap with the object
\* added, and the reference to it.
NewTides(h) == [heap |-> Append(h, TidesLiteral), ref |-> Len(h) + 1]

DefaultHarmonicsRange == <<DefaultMinHarm, DefaultMaxHarm>>

\* the dict literal of lines 305-347; tides is the reference to the tide table
CatalogueLiteral(tides) ==
    << <<"earth", << <<"angular_speed", earth_angular_speed>>,
                     <<"orbital_frequency", earth_orbital_freq>> >> >>,
       <<"gps", << <<"orbital_frequency", gps_orbital_freq>>,
                   <<"nodal_precession_frequency", gps_nodal_precession>>,
                   <<"ground_repeat_frequency", gps_ground_repeat>>,
                   <<"draconitic_frequency", gps_draconitic>>,
                   <<"draconitic_harmonics",
                     calculate_draconitic_harmonics(gps_draconitic, 15)>>,
                   <<"orbital_signals", <<>> >> >> >>,
       <<"glonass", << <<"orbital_frequency", glonass_orbital_freq>>,
                       <<"nodal_precession_frequency", glonass_nodal_precession>>,
                       <<"ground_repeat_frequency", glonass_ground_repeat>>,
                       <<"sun_arg_lat_frequency", glonass_sun_arg_lat>>,
                       <<"draconitic_frequency", glonass_draconitic>>,
                       <<"draconitic_harmonics",
                         calculate_draconitic_harmonics(glonass_draconitic, 15)>>,
                       <<"orbital_peaks",
                         calculate_orbital_peaks(glonass_sun_arg_lat, glonass_draconitic,
                                                 DefaultHarmonicsRange)>>,
                       <<"orbital_signals", <<>> >> >> >>,
       <<"galileo", << <<"orbital_frequency", galileo_orbital_freq>>,
                       <<"nodal_precession_frequency", galileo_nodal_precession>>,
                       <<"ground_repeat_frequency", galileo_ground_repeat>>,
                       <<"sun_arg_lat_frequency", galileo_sun_arg_lat>>,
                       <<"draconitic_frequency", galileo_draconitic>>,
                       <<"draconitic_harmonics",
                         calculate_draconitic_harmonics(galileo_draconitic, 15)>>,
                       <<"orbital_peaks",
                         calculate_orbital_peaks(galileo_sun_arg_lat, galileo_draconitic,
                                                 DefaultHarmonicsRange)>>,
                       <<"orbital_signals", <<>> >> >> >>,
       <<"tides", [ref |-> tides]>>,
       <<"annual", calculate_annual_harmonics(earth_orbital_freq, 12)>>,
       <<"aliases", <<>> >> >>

\* Writes the GLONASS alias under the Galileo key.
TidalAliasesSameKey(aliases, tide_name, tide_freq) ==
    LET a1 == DictSet(aliases, tide_name \o "_daily",
                      calculate_alias_frequency(tide_freq, FOfInt(1)))
        a2 == DictSet(a1, tide_name \o "_gps",
                      calculate_alias_frequency(tide_freq, gps_ground_repeat))
        a3 == DictSet(a2, tide_name \o "_galileo",
                      calculate_alias_frequency(tide_freq, galileo_ground_repeat))
    IN  DictSet(a3, tide_name \o "_galileo",
                calculate_alias_frequency(tide_freq, glonass_ground_repeat))

\* the loop body of lines 354-357
TidalAliases(aliases, tide_name, tide_freq) ==
    LET a1 == DictSet(aliases, tide_name \o "_daily",
                      calculate_alias_frequency(tide_freq, FOfInt(1)))
        a2 == DictSet(a1, tide_name \o "_gps",
                      calculate_alias_frequency(tide_freq, gps_ground_repeat))
        a3 == DictSet(a2, tide_name \o "_galileo",
                      calculate_alias_frequency(tide_freq, galileo_ground_repeat))
    IN  DictSet(a3, tide_name \o "_glonass",
                calculate_alias_frequency(tide_freq, glonass_ground_repeat))

\* a catalogue with the tide table it refers to written out
Deref(catalogue, h) ==
    [i \in 1..Len(catalogue) |->
        IF catalogue[i][1] = "tides"
        THEN <<"tides", h[catalogue[i][2].ref]>>
        ELSE catalogue[i]]


-----------------------------------------------------------------------------
(* Frequency and period conversion                                         *)

\* binary64: the numbers are multiples of 2^MinExp, and a mantissa of
\* MantBits bits has an exponent of at most MaxExp
MinExp == -1074
MaxExp == 971
NegINF == [kind |-> "-inf"]

\* 1.0 / x for a float x that is not 0 and is below 2^1022 in magnitude: a
\* zero for an infinite x (the sign of a zero is not kept), the rounded
\* quotient, and an infinity when that is 2^1024 or more
Reciprocal(x) ==
    IF x.kind # "finite" THEN EZero
    ELSE Only({IF r.kind = "finite" /\ r.e > MaxExp
               THEN (IF r.s = 1 THEN NegINF ELSE INF)
               ELSE r :
                  r \in {FDiv(FOfInt(1), x)}})

\* cpd_to_days without the test for 0
CpdToDaysUnguarded(frequency_cpd) == Reciprocal(frequency_cpd)

\* lines 33-35
cpd_to_days(frequency_cpd) ==
    IF frequency_cpd.kind = "finite" /\ IsZero(frequency_cpd) THEN INF
    ELSE Reciprocal(frequency_cpd)

\* days_to_cpd returning the period it was given
DaysToCpdSame(period_days) ==
    IF period_days.kind = "finite" /\ IsZero(period_days) THEN INF
    ELSE period_days

\* lines 48-50
days_to_cpd(period_days) ==
    IF period_days.kind = "finite" /\ IsZero(period_days) THEN INF
    ELSE Reciprocal(period_days)

-----------------------------------------------------------------------------
(* Direct calls of the engine's functions                                  *)

MaxGrid == 16
MaxCoef == 2
MaxNum == 24
MaxHarmonicArg == 15

\* frequencies on a grid of eighths of a cycle per day, two tides, 1.065509
\* and 5.51567885 cpd
AliasFreqs == {Lit(125 * k, 3) : k \in -MaxGrid..MaxGrid}
                 \cup {Lit(9293886, 7), Lit(19322734, 7), Lit(1065509, 6),
                       Lit(551567885, 8)}
\* 0, 1.0, fractions of a cycle per day, the three ground-repeat rates, -1.0
AliasRefs == {EZero, FOfInt(1), Lit(5, 1), Lit(25, 2), Lit(375, 3), FOfInt(3),
              gps_ground_repeat, glonass_ground_repeat, galileo_ground_repeat,
              FOfInt(-1)}

\* a / d cpd, 132.0, 36.0 and 14.4 cpd, and the float before 0.5
SubdailyFreqs == {FDiv(FOfInt(a), FOfInt(d)) : a \in -4..MaxNum, d \in {1, 2, 4, 7}}
                    \cup {FOfInt(132), FOfInt(36), Lit(144, 1),
                          Round(ESub(Lit(5, 1), E(0, <<1>>, -54)))}
SubdailyHours == {1, 5, 6, 7, 11, 12, 24, 48}

\* periods of a few hours and a near-resonant pair, in hours and in units of
\* 1e10 hours, and the program's own periods
SmallHours == {0, 1, 2, 3, 200, 201}
PeriodUnits == {FOfInt(1), FMul(FOfInt(10 ^ 5), FOfInt(10 ^ 5))}
PeriodsS == {FMul(FOfInt(t), unit) : t \in SmallHours, unit \in PeriodUnits}
               \cup {T_S_GPS}
PeriodsE == {FMul(FOfInt(t), unit) : t \in SmallHours, unit \in PeriodUnits}
               \cup {T_E}

\* 0, 1e-7, the annual and the three draconitic frequencies, and a negative one
HarmonicBases == {EZero, Lit(1, 7), earth_orbital_freq, gps_draconitic,
                  glonass_draconitic, galileo_draconitic, gps_nodal_precession}

NoCall == [op |-> "none"]

CallAliasFrequency ==
    /\ call = NoCall
    /\ \E freq \in AliasFreqs, reference_freq \in AliasRefs :
          call' = [op |-> "alias", freq |-> freq, reference_freq |-> reference_freq,
                   result |-> calculate_alias_frequency(freq, reference_freq)]
    /\ UNCHANGED <<run, heap, frame, held, snaps>>

CallSubdailyAliasing ==
    /\ call = NoCall
    /\ \E freq_cpd \in SubdailyFreqs, hours \in SubdailyHours :
          call' = [op |-> "subdaily", freq_cpd |-> freq_cpd, hours |-> hours,
                   result |-> calculate_subdaily_aliasing(freq_cpd, hours)]
    /\ UNCHANGED <<run, heap, frame, held, snaps>>

CallOrbitalPeriod ==
    /\ call = NoCall
    /\ \E n \in -MaxCoef..MaxCoef, m \in -MaxCoef..MaxCoef,
          p_S \in PeriodsS, p_E \in PeriodsE :
          call' = [op |-> "period", n |-> n, m |-> m, T_S |-> p_S, T_E |-> p_E,
                   result |-> calculate_orbital_period(n, m, p_S, p_E)]
    /\ UNCHANGED <<run, heap, frame, held, snaps>>

CallDraconiticHarmonics ==
    /\ call = NoCall
    /\ \E base_freq \in HarmonicBases, max_harmonic \in 0..MaxHarmonicArg :
          call' = [op |-> "draconitic_harmonics", base_freq |-> base_freq,
                   max_harmonic |-> max_harmonic,
                   result |-> calculate_draconitic_harmonics(base_freq, max_harmonic)]
    /\ UNCHANGED <<run, heap, frame, held, snaps>>

CallAnnualHarmonics ==
    /\ call = NoCall
    /\ \E base_freq \in HarmonicBases, max_harmonic \in 0..MaxHarmonicArg :
          call' = [op |-> "annual_harmonics", base_freq |-> base_freq,
                   max_harmonic |-> max_harmonic,
                   result |-> calculate_annual_harmonics(base_freq, max_harmonic)]
    /\ UNCHANGED <<run, heap, frame, held, snaps>>

\* a / d, 49.0, 93.0 and 0.013, +infinity, and the floats of magnitude
\* (2^j + |k| - 1) * 2^MinExp with the sign of k: 5e-324, 2^-1024 and the
\* float after it, 2^-1022, and -5e-324
ConverterArgs ==
    SubdailyFreqs \cup {FOfInt(49), FOfInt(93), Lit(13, 3), INF}
       \cup {Round(E(IF kj[1] < 0 THEN 1 ELSE 0,
                     NAdd(NShl(<<1>>, kj[2]), NOfInt(Abs(kj[1]) - 1)), MinExp)) :
                kj \in {<<1, 0>>, <<1, 50>>, <<2, 50>>, <<1, 52>>, <<-1, 0>>}}

CallCpdToDays ==
    /\ call = NoCall
    /\ \E frequency_cpd \in ConverterArgs :
          call' = [op |-> "cpd_to_days", frequency_cpd |-> frequency_cpd,
                   result |-> cpd_to_days(frequency_cpd)]
    /\ UNCHANGED <<run, heap, frame, held, snaps>>

CallDaysToCpd ==
    /\ call = NoCall
    /\ \E period_days \in ConverterArgs :
          call' = [op |-> "days_to_cpd", period_days |-> period_days,
                   result |-> days_to_cpd(period_days)]
    /\ UNCHANGED <<run, heap, frame, held, snaps>>

\* days_to_cpd(cpd_to_days(frequency_cpd)): the period that came back is
\* passed on
CallDaysToCpdOfPeriod ==
    /\ call.op = "cpd_to_days"
    /\ call' = [op |-> "round_trip", frequency_cpd |-> call.frequency_cpd,
                period_days |-> call.result,
                result |-> days_to_cpd(call.result)]
    /\ UNCHANGED <<run, heap, frame, held, snaps>>

\* calculate_alias_frequency(freq_cpd, 1.0) for the frequency that
\* calculate_subdaily_aliasing(freq_cpd, 24) was just called with
CallAliasOfSame ==
    /\ call.op = "subdaily"
    /\ call.hours = 24
    /\ call' = [op |-> "daily_pair", freq_cpd |-> call.freq_cpd,
                subdaily |-> call.result,
                alias |-> calculate_alias_frequency(call.freq_cpd, FOfInt(1))]
    /\ UNCHANGED <<run, heap, frame, held, snaps>>

\* The caller is done with the result and may call again.
DropResult ==
    /\ call # NoCall
    /\ call' = NoCall
    /\ UNCHANGED <<run, heap, frame, held, snaps>>

NoRun == [pc |-> "idle"]
NoFrame == [pc |-> "idle"]

InitEngine ==
    /\ call = NoCall
    /\ run = NoRun
    /\ heap = <<>>
    /\ frame = NoFrame
    /\ held = <<>>
    /\ snaps = <<>>

NextEngine ==
    \/ CallAliasFrequency
    \/ CallSubdailyAliasing
    \/ CallOrbitalPeriod
    \/ CallDraconiticHarmonics
    \/ CallAnnualHarmonics
    \/ CallCpdToDays
    \/ CallDaysToCpd
    \/ CallDaysToCpdOfPeriod
    \/ CallAliasOfSame
    \/ DropResult

SpecEngine == InitEngine /\ [][NextEngine]_vars

-----------------------------------------------------------------------------
(* calculate_orbital_peaks, one loop pass at a time                        *)

MaxHarm == 2

\* 0.125, 0.3, 0.45, 0.2, 1.0 and 1/3 cpd, the GLONASS and Galileo
\* frequencies, and the float before 0.5
SunArgs == {Lit(125, 3), Lit(3, 1), Lit(45, 2), Lit(2, 1), FOfInt(1),
            FDiv(FOfInt(1), FOfInt(3)), glonass_sun_arg_lat, galileo_sun_arg_lat,
            Round(ESub(Lit(5, 1), E(0, <<1>>, -54)))}
Dracs == {EZero, glonass_draconitic, galileo_draconitic}
HarmonicRanges == {<<DefaultMinHarm, DefaultMaxHarm>>}
                      \cup {<<-h, h>> : h \in 0..MaxHarm}

PeaksStart ==
    /\ run.pc = "idle"
    /\ \E sun \in SunArgs, drac \in Dracs, range \in HarmonicRanges :
          run' = [pc |-> "loop", sun_arg_lat_freq |-> sun, draconitic_freq |-> drac,
                  harmonics_range |-> range,
                  ks |-> PyRange(range[1], range[2]), mult |-> 1, j |-> 1,
                  peaks |-> EmptyPeaks]
    /\ UNCHANGED <<call, heap, frame, held, snaps>>

LoopOver(r) == r.mult > MaxMult \/ r.ks = <<>>

\* one pass of the inner loop, and the step of the outer loop after the last
PeaksStep ==
    /\ run.pc = "loop"
    /\ ~LoopOver(run)
    /\ LET last == run.j = Len(run.ks)
       IN  run' = [run EXCEPT
                     !.peaks = PeaksIter(run.peaks, run.sun_arg_lat_freq,
                                         run.draconitic_freq, run.mult, run.ks[run.j]),
                     !.mult = IF last THEN run.mult + 1 ELSE run.mult,
                     !.j = IF last THEN 1 ELSE run.j + 1]
    /\ UNCHANGED <<call, heap, frame, held, snaps>>

\* lines 174-184; the collected bands stay on record beside the result
PeaksReturn ==
    /\ run.pc = "loop"
    /\ LoopOver(run)
    /\ run' = [pc |-> "done", sun_arg_lat_freq |-> run.sun_arg_lat_freq,
               draconitic_freq |-> run.draconitic_freq, ks |-> run.ks,
               collected |-> run.peaks, result |-> PeaksFinish(run.peaks)]
    /\ UNCHANGED <<call, heap, frame, held, snaps>>

PeaksDrop ==
    /\ run.pc = "done"
    /\ run' = NoRun
    /\ UNCHANGED <<call, heap, frame, held, snaps>>

NextPeaks ==
    \/ PeaksStart
    \/ PeaksStep
    \/ PeaksReturn
    \/ PeaksDrop

SpecPeaks == InitEngine /\ [][NextPeaks]_vars

-----------------------------------------------------------------------------
(* create_gnss_frequencies, one statement or loop pass at a time, and a    *)
(* caller that keeps the catalogues it was given, changes them in place    *)
(* and calls other functions of the engine between two calls.  heap holds  *)
(* the tide tables, which a catalogue refers to; held are the catalogues   *)
(* in the caller's hands; snaps are the values of the catalogues at the    *)
(* moment each one was returned.                                           *)

MaxCalls == 2

\* lines 269-347: the constants, the tide table and the dict literal
CreateBegin ==
    /\ frame = NoFrame
    /\ Len(snaps) < MaxCalls
    /\ \E tides \in {NewTides(heap)} :
           /\ heap' = tides.heap
           /\ frame' = [pc |-> "aliases",
                        tides |-> tides.ref,
                        gnss_frequencies |-> CatalogueLiteral(tides.ref),
                        aliases |-> <<>>,
                        orbital_signals |-> <<>>,
                        i |-> 1]
    /\ UNCHANGED <<call, run, held, snaps>>

\* lines 353-357: one pass of the loop over tides.items()
CreateAliasStep ==
    /\ frame.pc = "aliases"
    /\ frame.i <= Len(heap[frame.tides])
    /\ LET tide == heap[frame.tides][frame.i]
       IN  frame' = [frame EXCEPT !.aliases = TidalAliases(@, tide[1], tide[2]),
                                  !.i = @ + 1]
    /\ UNCHANGED <<call, run, heap, held, snaps>>

\* line 359
CreateAliasesAssign ==
    /\ frame.pc = "aliases"
    /\ frame.i > Len(heap[frame.tides])
    /\ frame' = [frame EXCEPT !.pc = "signals",
                              !.gnss_frequencies = DictSet(@, "aliases", frame.aliases)]
    /\ UNCHANGED <<call, run, heap, held, snaps>>

\* line 362
CreateSignalsTable ==
    /\ frame.pc = "signals"
    /\ frame' = [frame EXCEPT !.pc = "assign",
                              !.orbital_signals = calculate_orbital_signals_table,
                              !.i = 1]
    /\ UNCHANGED <<call, run, heap, held, snaps>>

\* lines 363-364: one pass of the loop over orbital_signals.items()
CreateSignalsAssign ==
    /\ frame.pc = "assign"
    /\ frame.i <= Len(frame.orbital_signals)
    /\ LET constellation == frame.orbital_signals[frame.i][1]
           signals == frame.orbital_signals[frame.i][2]
       IN  frame' = [frame EXCEPT
                        !.gnss_frequencies =
                            DictSet2(@, constellation, "orbital_signals", signals),
                        !.i = @ + 1]
    /\ UNCHANGED <<call, run, heap, held, snaps>>

\* line 366
CreateReturn ==
    /\ frame.pc = "assign"
    /\ frame.i > Len(frame.orbital_signals)
    /\ held' = Append(held, frame.gnss_frequencies)
    /\ snaps' = Append(snaps, Deref(frame.gnss_frequencies, heap))
    /\ frame' = NoFrame
    /\ UNCHANGED <<call, run, heap>>

\* catalogue['tides']['M_2'] = 0.0; catalogue['tides']['S_2'] = 2.0
CallerChangesTides ==
    /\ frame = NoFrame
    /\ \E c \in 1..Len(held) :
          LET ref == DictGet(held[c], "tides").ref
          IN  heap' = [heap EXCEPT ![ref] = DictSet(DictSet(@, "M_2", EZero),
                                                    "S_2", FOfInt(2))]
    /\ UNCHANGED <<call, run, frame, held, snaps>>

\* catalogue['aliases'] = {}
CallerClearsAliases ==
    /\ frame = NoFrame
    /\ \E c \in 1..Len(held) :
          held' = [held EXCEPT ![c] = DictSet(@, "aliases", <<>>)]
    /\ UNCHANGED <<call, run, heap, frame, snaps>>

\* between two calls the caller calls calculate_alias_frequency on M_2
CallerCallsEngine ==
    /\ frame = NoFrame
    /\ call = NoCall
    /\ \E reference_freq \in {FOfInt(1), gps_ground_repeat} :
          call' = [op |-> "alias", freq |-> DictGet(TidesLiteral, "M_2"),
                   reference_freq |-> reference_freq,
                   result |-> calculate_alias_frequency(DictGet(TidesLiteral, "M_2"),
                                                        reference_freq)]
    /\ UNCHANGED <<run, heap, frame, held, snaps>>

NextCatalogue ==
    \/ CreateBegin
    \/ CreateAliasStep
    \/ CreateAliasesAssign
    \/ CreateSignalsTable
    \/ CreateSignalsAssign
    \/ CreateReturn
    \/ CallerChangesTides
    \/ CallerClearsAliases
    \/ CallerCallsEngine
    \/ DropResult

SpecCatalogue == InitEngine /\ [][NextCatalogue]_vars

-----------------------------------------------------------------------------
(* save_frequencies_to_json and main of src/main.py, statement by          *)
(* statement.  run is the caller's position: who called (main, or a direct *)
(* call with a file name), the file as it was and as it is (absent, or the *)
(* keys of the catalogue written to it so far), what was printed, the      *)
(* statement that raised, and what save_frequencies_to_json returned.      *)
(* The catalogue is built by the steps of create_gnss_frequencies above.   *)

\* main, lines 278-288, up to the call of save_frequencies_to_json, or a
\* direct call of save_frequencies_to_json(filename)
ExportBegin ==
    /\ run = NoRun
    /\ held = <<>>
    /\ \E caller \in {"main", "direct"},
          filename \in {"gnss_frequencies.json", "out.json"},
          before \in {"absent", <<"old">>} :
          /\ caller = "main" => filename = "gnss_frequencies.json"
          /\ run' = [pc |-> "create", caller |-> caller, filename |-> filename,
                     before |-> before, file |-> before,
                     out |-> IF caller = "main" THEN <<"report", "saving">> ELSE <<>>,
                     at |-> "none", result |-> "none"]
    /\ UNCHANGED <<call, heap, frame, held, snaps>>

\* line 222: frequencies = create_gnss_frequencies()
SaveCreate ==
    /\ run.pc = "create"
    /\ held = <<>>
    /\ \/ CreateBegin
       \/ CreateAliasStep
       \/ CreateAliasesAssign
       \/ CreateSignalsTable
       \/ CreateSignalsAssign
       \/ CreateReturn

\* line 225: open(filename, 'w') empties the file or raises
SaveOpen ==
    /\ run.pc = "create"
    /\ held # <<>>
    /\ \E opened \in BOOLEAN :
          run' = IF opened THEN [run EXCEPT !.pc = "dump", !.file = <<>>]
                 ELSE [run EXCEPT !.pc = "raised", !.at = "open"]
    /\ UNCHANGED <<call, heap, frame, held, snaps>>

\* lines 225-226: json.dump(frequencies, f, indent=2) and the end of the
\* with block: every key is written, or the first k and an error is raised
SaveDump ==
    /\ run.pc = "dump"
    /\ \E k \in 0..Len(held[1]) :
          run' = [run EXCEPT !.file = [i \in 1..k |-> held[1][i][1]] \o <<>>,
                             !.pc = IF k = Len(held[1]) THEN "getsize" ELSE "raised",
                             !.at = IF k = Len(held[1]) THEN "none" ELSE "dump"]
    /\ UNCHANGED <<call, heap, frame, held, snaps>>

\* lines 229-233: os.path.getsize(filename) returns or raises; the two
\* lines printed, return True
SaveSize ==
    /\ run.pc = "getsize"
    /\ \E sized \in BOOLEAN :
          run' = IF sized
                 THEN [run EXCEPT !.pc = "returned", !.result = TRUE,
                                  !.out = @ \o <<"saved", "file_size">>]
                 ELSE [run EXCEPT !.pc = "raised", !.at = "getsize"]
    /\ UNCHANGED <<call, heap, frame, held, snaps>>

\* lines 234-236: except Exception around the statements of lines 225-233;
\* an exception raised elsewhere leaves the function
SaveExcept ==
    /\ run.pc = "raised"
    /\ run' = IF run.at \in {"open", "dump", "getsize"}
              THEN [run EXCEPT !.pc = "returned", !.result = FALSE,
                               !.out = Append(@, "error_saving")]
              ELSE [run EXCEPT !.pc = "uncaught"]
    /\ UNCHANGED <<call, heap, frame, held, snaps>>

\* main with the summary of lines 293-308 printed whatever was returned
MainFinishAlwaysSummary ==
    /\ run.pc = "returned"
    /\ run.caller = "main"
    /\ run' = [run EXCEPT !.pc = "done",
                          !.out = @ \o <<"usage_examples", "analysis_complete">>]
    /\ UNCHANGED <<call, heap, frame, held, snaps>>

\* main, lines 290-310: if success: ... else: ...
MainFinish ==
    /\ run.pc = "returned"
    /\ run.caller = "main"
    /\ run' = [run EXCEPT !.pc = "done",
                          !.out = IF run.result
                                  THEN @ \o <<"usage_examples", "analysis_complete">>
                                  ELSE Append(@, "error_processing")]
    /\ UNCHANGED <<call, heap, frame, held, snaps>>

NextExport ==
    \/ ExportBegin
    \/ SaveCreate
    \/ SaveOpen
    \/ SaveDump
    \/ SaveSize
    \/ SaveExcept
    \/ MainFinish

SpecExport == InitEngine /\ [][NextExport]_vars

-----------------------------------------------------------------------------
(* Properties of the directly called functions (under SpecEngine)          *)
(* A result is compared with the real-number value of a formula in exact   *)
(* arithmetic, without division: an inequality between quotients is        *)
(* stated between the products.                                            *)

ELess(a, b) == ECmp(a, b) < 0
ELeq(a, b) == ECmp(a, b) <= 0
EMax(a, b) == IF ECmp(a, b) < 0 THEN b ELSE a
\* |a - b|
EDist(a, b) == EAbs(ESub(a, b))
\* a * 2^k
EScale(a, k) == E(a.s, a.n, a.e + k)
\* the room left to rounding: 2^-49 times a
Rounding(a) == EScale(a, -49)

\* C3 as stated: for every frequency and every positive reference,
\* calculate_alias_frequency returns a value in [0, 0.5 * reference]; for
\* every non-negative frequency and positive sampling interval,
\* calculate_subdaily_aliasing returns a value in [0, 0.5 * (1/T)],
\* T = hours/24, that is 2 * hours * result <= 24.
C3_AliasWithinHalfReference ==
    /\ (call.op = "alias" /\ ESign(call.reference_freq) > 0)
          => /\ ESign(call.result) >= 0
             /\ ELeq(EMul(EOfInt(2), call.result), call.reference_freq)
    /\ (call.op = "subdaily" /\ ESign(call.freq_cpd) >= 0 /\ call.hours > 0)
          => /\ ESign(call.result) >= 0
             /\ ELeq(EMul(EOfInt(2 * call.hours), call.result), EOfInt(24))

\* C3: for every frequency f and every positive reference,
\* calculate_alias_frequency returns a value in
\* [0, 0.5 * reference + 2^-49 * max(|f|, reference)]; for every
\* non-negative frequency f and positive sampling interval,
\* calculate_subdaily_aliasing returns a value in
\* [0, 0.5 * (1/T) + 2^-49 * max(f, 1/T)], 1/T = 24/hours.
C3_AliasWithinHalfReferenceRounded ==
    /\ (call.op = "alias" /\ ESign(call.reference_freq) > 0)
          => /\ ESign(call.result) >= 0
             /\ ELeq(EMul(EOfInt(2), call.result),
                     EAdd(call.reference_freq,
                          Rounding(EMul(EOfInt(2),
                                        EMax(EAbs(call.freq), call.reference_freq)))))
    /\ (call.op = "subdaily" /\ ESign(call.freq_cpd) >= 0 /\ call.hours > 0)
          => /\ ESign(call.result) >= 0
             /\ ELeq(EMul(EOfInt(2 * call.hours), call.result),
                     EAdd(EOfInt(24),
                          Rounding(EMul(EOfInt(2),
                                        EMax(EMul(EOfInt(call.hours), call.freq_cpd),
                                             EOfInt(24))))))

\* 1.065509 cpd folded against the GLONASS ground-repeat rate 0.125354 cpd:
\* the result is above half the reference.
C3_Witness ==
    /\ call.op = "alias"
    /\ call.freq = Lit(1065509, 6)
    /\ call.reference_freq = glonass_ground_repeat
    /\ ELess(call.reference_freq, EMul(EOfInt(2), call.result))

\* n/T_E + m/T_S as the program computes it, for periods other than 0
Denominator(n, m, p_S, p_E) == FAdd(FDiv(FOfInt(n), p_E), FDiv(FOfInt(m), p_S))

\* C5: calculate_orbital_period returns +infinity and raises nothing when
\* n = 0 and m = 0, whatever the two periods are (zero included), and also
\* when |n/T_E + m/T_S| < 1e-10, the sum and the bound being the floats the
\* program compares.
C5_OrbitalPeriodUndefined ==
    call.op = "period" =>
        /\ (call.n = 0 /\ call.m = 0) => call.result = INF
        /\ (/\ ~IsZero(call.T_S)
            /\ ~IsZero(call.T_E)
            /\ FLess(FAbs(Denominator(call.n, call.m, call.T_S, call.T_E)), Eps))
              => call.result = INF

\* A near-resonant pair: the denominator is not 0 and is below 1e-10.
C5_Witness ==
    /\ call.op = "period"
    /\ ~IsZero(call.T_S)
    /\ ~IsZero(call.T_E)
    /\ ~IsZero(Denominator(call.n, call.m, call.T_S, call.T_E))
    /\ FLess(FAbs(Denominator(call.n, call.m, call.T_S, call.T_E)), Eps)
    /\ call.result = INF

NearMultiples(f, h) ==
    LET k == FFloor(FDiv(FMul(FOfInt(h), f), FOfInt(24)))
    IN  {j \in (k - 1)..(k + 2) : j >= 0}

\* f is k times the sampling rate 24/h
IsMultiple(f, h, k) == ECmp(EMul(EOfInt(h), f), EOfInt(24 * k)) = 0

\* 24/h is a power of two: h = 3, 6, 12, 24, 48 or 96 hours
RateIsPowerOfTwo(h) == \E j \in 0..5 : h = 3 * 2 ^ j

\* C7 as stated: for every non-negative frequency f and positive sampling
\* interval, calculate_subdaily_aliasing returns the value of
\* |f - (1/T) * floor(f*T + 0.5)|, T = hours/24, and every f that is an
\* integer multiple of the sampling rate 1/T = 24/hours yields exactly 0.
C7_SubdailyNearestMultiple ==
    (call.op = "subdaily" /\ ESign(call.freq_cpd) >= 0 /\ call.hours > 0) =>
        LET f == call.freq_cpd
            T == FDiv(FOfInt(call.hours), FOfInt(24))
            k == FFloor(FAdd(FMul(f, T), Lit(5, 1)))
        IN  /\ call.result = FAbs(FSub(f, FMul(FDiv(FOfInt(1), T), FOfInt(k))))
            /\ (\E j \in NearMultiples(f, call.hours) : IsMultiple(f, call.hours, j))
                  => IsZero(call.result)

\* C7: for every non-negative frequency f and positive sampling interval,
\* calculate_subdaily_aliasing returns the distance from f to a nearest
\* integer multiple of the sampling rate 1/T = 24/hours to within
\* 2^-49 * max(f, 1/T); an f that is an integer multiple of 1/T yields a
\* value of at most that size, and exactly 0 when 1/T is a power of two and
\* f * T is below 2^52 (f = 1.0 with 24-hour sampling).
C7_SubdailyNearestMultipleRounded ==
    (call.op = "subdaily" /\ ESign(call.freq_cpd) >= 0 /\ call.hours > 0) =>
        LET f == call.freq_cpd
            h == call.hours
            hf == EMul(EOfInt(h), f)
            room == Rounding(EMax(hf, EOfInt(24)))
        IN  /\ ESign(call.result) >= 0
            /\ \E k \in NearMultiples(f, h) :
                  /\ ELeq(EDist(hf, EOfInt(24 * k)), EOfInt(12))
                  /\ ELeq(EDist(EMul(EOfInt(h), call.result),
                                EDist(hf, EOfInt(24 * k))),
                          room)
            /\ \A k \in NearMultiples(f, h) :
                  IsMultiple(f, h, k) =>
                      /\ ELeq(EMul(EOfInt(h), call.result), room)
                      /\ (RateIsPowerOfTwo(h) /\ ELess(hf, EScale(EOfInt(24), 52)))
                            => IsZero(call.result)

\* 24.0 cpd sampled every 11 hours, 11 times the sampling rate: the result
\* is not 0; and 2.0 cpd sampled every 12 hours: the result is 0.
C7_Witness ==
    /\ call.op = "subdaily"
    /\ \/ /\ call.hours = 11
          /\ call.freq_cpd = FOfInt(24)
          /\ ~IsZero(call.result)
       \/ /\ call.hours = 12
          /\ call.freq_cpd = FOfInt(2)
          /\ IsZero(call.result)

\* C10: for every positive max_harmonic, calculate_draconitic_harmonics and
\* calculate_annual_harmonics return a mapping whose keys are exactly
\* 1..max_harmonic, entry i being the float nearest to i * base_freq (within
\* 2^-53 of it, relatively); for a positive base frequency the entries
\* increase strictly with i.
C10_HarmonicsAreMultiples ==
    (call.op \in {"draconitic_harmonics", "annual_harmonics"} /\ call.max_harmonic >= 1) =>
        LET h == call.result
            N == call.max_harmonic
        IN  /\ Len(h) = N
            /\ DictKeys(h) = 1..N
            /\ DictGet(h, 1) = call.base_freq
            /\ \A i \in 1..N :
                  LET exact == EMul(EOfInt(i), call.base_freq)
                  IN  /\ NBitLen(DictGet(h, i).n) \in {0, MantBits}
                      /\ ELeq(EDist(DictGet(h, i), exact), EScale(EAbs(exact), -53))
            /\ ESign(call.base_freq) > 0 =>
                  \A i \in 1..(N - 1) : ELess(DictGet(h, i), DictGet(h, i + 1))

\* The catalogue's own call: 15 harmonics of the GPS draconitic frequency,
\* the last one the float below 0.0426795.
C10_Witness ==
    /\ call.op = "draconitic_harmonics"
    /\ call.base_freq = gps_draconitic
    /\ call.max_harmonic = 15
    /\ Len(call.result) = 15
    /\ ELess(DictGet(call.result, 15), Lit(426795, 7))
    /\ ELess(Lit(426794, 7), DictGet(call.result, 15))

-----------------------------------------------------------------------------
(* Properties of calculate_orbital_peaks (under SpecPeaks)                 *)

\* C1: whatever the sun-argument frequency, the draconitic frequency and the
\* harmonics range, the mapping calculate_orbital_peaks returns has no band
\* with more than 10 entries and no band with none.
C1_BandsBoundedNonEmpty ==
    run.pc = "done" =>
        \A i \in 1..Len(run.result) :
            /\ Len(run.result[i][2]) >= 1
            /\ Len(run.result[i][2]) <= 10

\* A call that collected more than ten combinations in one band and none in
\* another: the first is returned with ten entries, the second not at all.
C1_Witness ==
    /\ run.pc = "done"
    /\ \E i \in 1..Len(run.collected) :
          /\ Len(run.collected[i][2]) > 10
          /\ Len(DictGet(run.result, run.collected[i][1])) = 10
    /\ \E i \in 1..Len(run.collected) :
          /\ run.collected[i][2] = <<>>
          /\ ~DictHas(run.result, run.collected[i][1])

\* the five period ranges (lo, hi] in days, in the order they are tested
BandRanges ==
    << <<"8d_peaks", FOfInt(6), FOfInt(12)>>,
       <<"4d_peaks", FOfInt(3), FOfInt(6)>>,
       <<"2-7d_peaks", FOfInt(2), Lit(35, 1)>>,
       <<"2d_peaks", Lit(15, 1), Lit(25, 1)>>,
       <<"1d_peaks", Lit(5, 1), Lit(15, 1)>> >>

\* period = 1/alias, the float the program computes; +infinity for alias 0
PeriodOf(alias) == IF IsZero(alias) THEN INF ELSE FDiv(FOfInt(1), alias)

\* lo < period <= hi for range i; never for period +infinity
PeriodInRange(i, period) ==
    /\ period.kind = "finite"
    /\ ELess(BandRanges[i][2], period)
    /\ ELeq(period, BandRanges[i][3])

\* the first range holding the period, 0 when none does
FirstRange(period) ==
    IF \E i \in 1..5 : PeriodInRange(i, period)
    THEN CHOOSE i \in 1..5 :
            PeriodInRange(i, period) /\ \A h \in 1..(i - 1) : ~PeriodInRange(h, period)
    ELSE 0

\* the (mult, position in the harmonics) pairs to look at: all of them once
\* the call is over, the one of the last pass while it loops
Processed(r) ==
    {<<mu, idx>> \in (1..MaxMult) \X (1..Len(r.ks)) :
        \/ r.pc = "done"
        \/ mu = r.mult /\ idx = r.j - 1
        \/ mu = r.mult - 1 /\ r.j = 1 /\ idx = Len(r.ks)}

\* C2: every (mult, k) combination is in at most one band, the first of
\* (6,12] 8d, (3,6] 4d, (2,3.5] 2-7d, (1.5,2.5] 2d, (0.5,1.5] 1d whose range
\* holds period = 1/alias (+infinity for alias 0), and in none when no range
\* holds it; a period in (3,3.5] is in the 4-day band and not the multi-day
\* band, a period in (2,2.5] in the multi-day band and not the 2-day band.
C2_FirstMatchingBand ==
    run.pc \in {"loop", "done"} =>
        LET peaks == IF run.pc = "done" THEN run.collected ELSE run.peaks
        IN  \A pos \in Processed(run) :
                LET mult == pos[1]
                    k == run.ks[pos[2]]
                    alias == CombinedAlias(run.sun_arg_lat_freq, run.draconitic_freq,
                                           mult, k)
                    period == PeriodOf(alias)
                    first == FirstRange(period)
                    In(name) == DictHas(DictGet(peaks, name), Label(mult, k))
                IN  /\ ESign(alias) >= 0
                    /\ \A i \in 1..5 :
                          /\ In(BandRanges[i][1]) <=> (i = first)
                          /\ (i = first) =>
                                DictGet(DictGet(peaks, BandRanges[i][1]), Label(mult, k)) = alias
                    /\ (/\ period.kind = "finite"
                        /\ ELess(FOfInt(3), period)
                        /\ ELeq(period, Lit(35, 1)))
                          => In("4d_peaks") /\ ~In("2-7d_peaks")
                    /\ (/\ period.kind = "finite"
                        /\ ELess(FOfInt(2), period)
                        /\ ELeq(period, Lit(25, 1)))
                          => In("2-7d_peaks") /\ ~In("2d_peaks")

\* Sun-argument frequency 0.3 cpd, draconitic frequency 0: 1f_u has period
\* 10/3 days, inside (3,6] and (2,3.5]; 2f_u has alias 0.4, period 2.5 days,
\* inside (2,3.5] and (1.5,2.5]; 1.0 cpd would have alias 0 and no band.
C2_Witness ==
    /\ run.pc = "done"
    /\ run.sun_arg_lat_freq = Lit(3, 1)
    /\ run.draconitic_freq = EZero
    /\ DictHas(DictGet(run.collected, "4d_peaks"), "1f_u+0f_d")
    /\ ~DictHas(DictGet(run.collected, "2-7d_peaks"), "1f_u+0f_d")
    /\ PeriodOf(DictGet(DictGet(run.collected, "2-7d_peaks"), "2f_u+0f_d")) = Lit(25, 1)
    /\ DictGet(run.collected, "2d_peaks") = <<>>

-----------------------------------------------------------------------------
(* Properties of create_gnss_frequencies (under SpecCatalogue)             *)

Constellations == {"gps", "glonass", "galileo"}
BaseParameters == {"orbital_frequency", "nodal_precession_frequency",
                   "ground_repeat_frequency", "sun_arg_lat_frequency",
                   "draconitic_frequency"}

\* every value of a dict of frequencies is >= 0
ValuesNonNegative(d) == \A j \in 1..Len(d) : ESign(d[j][2]) >= 0

\* every frequency of a catalogue is >= 0, the base parameters named in
\* skipped left aside
NonNegativeExcept(catalogue, skipped) ==
    /\ \A c \in Constellations :
          LET params == DictGet(catalogue, c)
              signals == DictGet(params, "orbital_signals")
          IN  /\ \A k \in BaseParameters \ skipped :
                    DictHas(params, k) => ESign(DictGet(params, k)) >= 0
              /\ ValuesNonNegative(DictGet(params, "draconitic_harmonics"))
              /\ DictHas(params, "orbital_peaks") =>
                    \A b \in 1..Len(DictGet(params, "orbital_peaks")) :
                        ValuesNonNegative(DictGet(params, "orbital_peaks")[b][2])
              /\ \A g \in 1..Len(signals) :
                    /\ ESign(DictGet(signals[g][2], "frequency_cpd")) >= 0
                    /\ ESign(DictGet(signals[g][2], "aliased_frequency_cpd")) >= 0
    /\ ValuesNonNegative(DictGet(catalogue, "earth"))
    /\ ValuesNonNegative(DictGet(catalogue, "tides"))
    /\ ValuesNonNegative(DictGet(catalogue, "annual"))
    /\ ValuesNonNegative(DictGet(catalogue, "aliases"))

\* C4 as stated: every frequency value stored in a returned catalogue is
\* non-negative, the nodal precession frequencies included.
C4_AllFrequenciesNonNegative ==
    \A c \in 1..Len(snaps) : NonNegativeExcept(snaps[c], {})

\* C4: every frequency value stored in a returned catalogue is non-negative
\* (base parameters, harmonics, tides, aliases, peak values and the orbital
\* signal frequencies), except the nodal precession frequency of each
\* constellation, which is negative.
C4_NonNegativeButNodalPrecession ==
    \A c \in 1..Len(snaps) :
        /\ NonNegativeExcept(snaps[c], {"nodal_precession_frequency"})
        /\ \A k \in Constellations :
              ESign(DictGet(DictGet(snaps[c], k), "nodal_precession_frequency")) < 0

C4_Witness ==
    /\ Len(snaps) >= 1
    /\ DictGet(DictGet(snaps[1], "gps"), "nodal_precession_frequency") = Lit(-1075, 7)
    /\ DictGet(DictGet(snaps[1], "glonass"), "nodal_precession_frequency") = Lit(-922, 7)
    /\ DictGet(DictGet(snaps[1], "galileo"), "nodal_precession_frequency") = Lit(-726, 7)
    /\ Len(DictGet(snaps[1], "aliases")) > 0
    /\ Len(DictGet(DictGet(snaps[1], "galileo"), "orbital_peaks")) > 0

\* C8: every call of create_gnss_frequencies returns a catalogue equal, key
\* for key and value for value, to the one every other call returned,
\* whatever the caller did to the catalogues it already held and whatever
\* it called in between.
C8_EveryCallSameCatalogue ==
    \A c \in 1..Len(snaps), d \in 1..Len(snaps) : snaps[c] = snaps[d]

C8_Witness ==
    /\ Len(snaps) = 2
    /\ snaps[2] = snaps[1]
    /\ DictGet(DictGet(Deref(held[1], heap), "tides"), "M_2") = EZero
    /\ DictHas(DictGet(Deref(held[1], heap), "tides"), "S_2")
    /\ DictGet(held[1], "aliases") = <<>>
    /\ DictGet(DictGet(snaps[2], "tides"), "M_2") = Lit(19322734, 7)
    /\ call # NoCall

\* v is the distance from f to a nearest integer multiple of ref, ref > 0,
\* to within 2^-49 * max(f, ref)
NearestMultipleDistance(v, f, ref) ==
    LET q == PyRound(FDiv(f, ref))
        Near(k) == LET d == EDist(f, EMul(EOfInt(k), ref))
                   IN  /\ ELeq(EMul(EOfInt(2), d), ref)
                       /\ ELeq(EDist(v, d), Rounding(EMax(EAbs(f), ref)))
    IN  /\ ESign(v) >= 0
        /\ Near(q) \/ Near(q - 1) \/ Near(q + 1)

\* C9: the aliases of a returned catalogue are four per tide, under the
\* pairwise distinct keys <tide>_daily, <tide>_gps, <tide>_galileo and
\* <tide>_glonass, each the alias of that tide against 1.0 cpd or the
\* ground-repeat rate of that constellation.  (A catalogue is the last of
\* snaps in the state its call returns to, and snaps only grows.)
C9_FourAliasesPerTide ==
    \A c \in {Len(snaps)} \ {0} :
        LET aliases == DictGet(snaps[c], "aliases")
            tides == DictGet(snaps[c], "tides")
            repeat(k) == DictGet(DictGet(snaps[c], k), "ground_repeat_frequency")
        IN  /\ Len(aliases) = 4 * Len(tides)
            /\ Cardinality(DictKeys(aliases)) = Len(aliases)
            /\ \A t \in 1..Len(tides) :
                  /\ DictHas(aliases, tides[t][1] \o "_daily")
                  /\ NearestMultipleDistance(DictGet(aliases, tides[t][1] \o "_daily"),
                                             tides[t][2], FOfInt(1))
                  /\ \A k \in Constellations :
                        /\ DictHas(aliases, tides[t][1] \o "_" \o k)
                        /\ NearestMultipleDistance(
                               DictGet(aliases, tides[t][1] \o "_" \o k),
                               tides[t][2], repeat(k))

\* 8 tides and 32 aliases; M_2 against GLONASS is 0.0519634 less one
\* rounding.
C9_Witness ==
    /\ Len(snaps) >= 1
    /\ Len(DictGet(snaps[1], "tides")) = 8
    /\ Len(DictGet(snaps[1], "aliases")) = 32
    /\ ELess(DictGet(DictGet(snaps[1], "aliases"), "M_2_glonass"), Lit(519634, 7))
    /\ ELess(Lit(519633, 7), DictGet(DictGet(snaps[1], "aliases"), "M_2_glonass"))
    /\ ELess(Lit(706113, 7), DictGet(DictGet(snaps[1], "aliases"), "145_545_daily"))

-----------------------------------------------------------------------------
(* The orbital signals table                                               *)

\* C11: in the table calculate_orbital_signals_table returned, each of the
\* three constellations has a record for a pair (n, m) of the fixed list
\* exactly when calculate_orbital_period(n, m, T_S, T_E) is finite and
\* positive; the record holds that period P, a frequency_cpd that is 24 / P
\* rounded once, aliased_frequency_cpd = calculate_subdaily_aliasing of it
\* at 24 hours, and aliased_period_days the rounded reciprocal of that, or
\* +infinity when it is 0; the table is a table, never an error.
C11_SignalsTableRecords ==
    frame.pc = "assign" =>
       /\ Len(frame.orbital_signals) = Len(constellation_periods)
       /\ \A c \in 1..Len(constellation_periods) :
             LET signals == frame.orbital_signals[c][2]
                 T_S == constellation_periods[c][2]
             IN  /\ frame.orbital_signals[c][1] = constellation_periods[c][1]
                 /\ DictKeys(signals) \subseteq
                       {SignalKey(nm[1], nm[2]) :
                           nm \in {nm_combinations[j] : j \in 1..Len(nm_combinations)}}
                 /\ \A j \in 1..Len(nm_combinations) :
                       LET n == nm_combinations[j][1]
                           m == nm_combinations[j][2]
                           P == calculate_orbital_period(n, m, T_S, T_E)
                           rec == DictGet(signals, SignalKey(n, m))
                           f == DictGet(rec, "frequency_cpd")
                           a == DictGet(rec, "aliased_frequency_cpd")
                           d == DictGet(rec, "aliased_period_days")
                       IN  /\ DictHas(signals, SignalKey(n, m))
                                <=> (P.kind = "finite" /\ ESign(P) > 0)
                           /\ DictHas(signals, SignalKey(n, m)) =>
                                 /\ DictKeys(rec) = {"orbital_period_hours",
                                                     "frequency_cpd",
                                                     "aliased_frequency_cpd",
                                                     "aliased_period_days"}
                                 /\ DictGet(rec, "orbital_period_hours") = P
                                 /\ f.kind = "finite"
                                 /\ NBitLen(f.n) = MantBits
                                 /\ ELeq(EDist(EMul(f, P), EOfInt(24)),
                                         EScale(EOfInt(24), -53))
                                 /\ a = calculate_subdaily_aliasing(f, 24)
                                 /\ IF IsZero(a) THEN d = INF
                                    ELSE /\ d.kind = "finite"
                                         /\ NBitLen(d.n) = MantBits
                                         /\ ELeq(EDist(EMul(d, a), EOfInt(1)),
                                                 EScale(EOfInt(1), -53))

\* The table as the function returns it: 21 records for each constellation,
\* the GPS pair n = -2, m = 1 with its period of 572848.32 hours aliasing to
\* 23868.68 days, the GLONASS pair n = 0, m = 1 to 7.65 days.
C11_Witness ==
    /\ frame.pc = "assign"
    /\ frame.i = 1
    /\ \A c \in 1..3 : Len(frame.orbital_signals[c][2]) = 21
    /\ LET rec == DictGet(frame.orbital_signals[1][2], "n-2_m1")
       IN  /\ ELess(EOfInt(572848), DictGet(rec, "orbital_period_hours"))
           /\ ELess(DictGet(rec, "orbital_period_hours"), EOfInt(572849))
           /\ ELess(EOfInt(23868), DictGet(rec, "aliased_period_days"))
           /\ ELess(DictGet(rec, "aliased_period_days"), EOfInt(23869))
    /\ LET rec == DictGet(frame.orbital_signals[2][2], "n0_m1")
       IN  /\ ELess(EOfInt(7), DictGet(rec, "aliased_period_days"))
           /\ ELess(DictGet(rec, "aliased_period_days"), EOfInt(8))

-----------------------------------------------------------------------------
(* Frequency and period conversion                                         *)

\* C12 as stated: for every frequency f > 0, days_to_cpd(cpd_to_days(f))
\* equals f.
C12_RoundTripEqual ==
    (call.op = "round_trip" /\ call.frequency_cpd.kind = "finite"
        /\ ESign(call.frequency_cpd) > 0)
    => call.result = call.frequency_cpd

\* C12: for every float f with 2^-1022 <= f, both conversions being one
\* rounded division, days_to_cpd(cpd_to_days(f)) is a finite float within
\* 2^-51 * f of f, and is f itself when f is a power of two.
C12_RoundTripWithinRounding ==
    (/\ call.op = "round_trip"
     /\ call.frequency_cpd.kind = "finite"
     /\ ELeq(EScale(EOfInt(1), -1022), call.frequency_cpd))
    => /\ call.result.kind = "finite"
       /\ ELeq(EDist(call.result, call.frequency_cpd), EScale(call.frequency_cpd, -51))
       /\ call.frequency_cpd.n = NShl(<<1>>, MantBits - 1)
             => call.result = call.frequency_cpd

\* 49.0 has gone to 0.02040816326530612 days and come back as
\* 49.00000000000001.
C12_Witness ==
    /\ call.op = "round_trip"
    /\ call.frequency_cpd = FOfInt(49)
    /\ ELess(Lit(204081, 7), call.period_days)
    /\ ELess(call.period_days, Lit(204082, 7))
    /\ ELess(call.frequency_cpd, call.result)
    /\ ELess(call.result, Lit(490000001, 7))

\* C13 as stated: cpd_to_days(0) and days_to_cpd(0) return +infinity, no
\* division error, and every non-zero input returns its finite reciprocal.
C13_ZeroGuardFiniteReciprocal ==
    LET x == IF call.op = "cpd_to_days" THEN call.frequency_cpd
             ELSE call.period_days
    IN  call.op \in {"cpd_to_days", "days_to_cpd"} =>
           IF x.kind = "finite" /\ IsZero(x)
           THEN call.result = INF
           ELSE /\ call.result.kind = "finite"
                /\ x.kind = "finite" =>
                      ELeq(EDist(EMul(call.result, x), EOfInt(1)),
                           EScale(EOfInt(1), -53))

\* C13: cpd_to_days(0) and days_to_cpd(0) return +infinity, no division
\* error; a non-zero x of magnitude above 2^-1024 returns the finite float
\* nearest 1 / x, an infinite x returns 0, and a non-zero x of magnitude
\* 2^-1024 or less, whose reciprocal is beyond the floats, returns the
\* infinity of its sign.
C13_ZeroGuardReciprocal ==
    LET x == IF call.op = "cpd_to_days" THEN call.frequency_cpd
             ELSE call.period_days
    IN  call.op \in {"cpd_to_days", "days_to_cpd"} =>
           IF x.kind # "finite" THEN call.result = EZero
           ELSE IF IsZero(x) THEN call.result = INF
           ELSE IF ELeq(EAbs(x), EScale(EOfInt(1), -1024))
           THEN call.result = (IF ESign(x) < 0 THEN NegINF ELSE INF)
           ELSE /\ call.result.kind = "finite"
                /\ NBitLen(call.result.n) = MantBits
                /\ ELeq(EDist(EMul(call.result, x), EOfInt(1)),
                        EScale(EOfInt(1), -53))

\* days_to_cpd(0) has returned +infinity.
C13_Witness ==
    /\ call.op = "days_to_cpd"
    /\ call.period_days = EZero
    /\ call.result = INF

-----------------------------------------------------------------------------
(* Catalogue assembly, step by step                                        *)

\* C14: a step of create_gnss_frequencies after the dict literal (a pass of
\* the alias loop, the assignment of 'aliases', the call of the signals
\* table, a pass of the loop assigning 'orbital_signals') leaves the tide
\* table and the keys of the catalogue as they are, and with them every
\* entry but 'aliases' and every entry of a constellation but its
\* 'orbital_signals'; what is returned is the catalogue so assembled.
C14_LaterStepsKeepEarlier ==
    [][frame.pc \in {"aliases", "signals", "assign"} =>
          /\ heap'[frame.tides] = heap[frame.tides]
          /\ IF frame'.pc = "idle"
             THEN /\ held' = Append(held, frame.gnss_frequencies)
                  /\ DictGet(frame.gnss_frequencies, "tides").ref = frame.tides
             ELSE LET old == frame.gnss_frequencies
                      new == frame'.gnss_frequencies
                  IN  /\ frame'.tides = frame.tides
                      /\ Len(new) = Len(old)
                      /\ \A i \in 1..Len(old) :
                            /\ new[i][1] = old[i][1]
                            /\ old[i][1] \in {"earth", "tides", "annual"}
                                  => new[i][2] = old[i][2]
                            /\ old[i][1] \in Constellations =>
                                  /\ Len(new[i][2]) = Len(old[i][2])
                                  /\ \A j \in 1..Len(old[i][2]) :
                                        /\ new[i][2][j][1] = old[i][2][j][1]
                                        /\ old[i][2][j][1] # "orbital_signals"
                                              => new[i][2][j] = old[i][2][j]]_vars

\* All three tables of orbital signals have been assigned: the GLONASS entry
\* holds its 21 signals next to the peaks and the 15 harmonics of the
\* literal, the aliases are the 32 computed, the tide table is the literal's.
C14_Witness ==
    /\ frame.pc = "assign"
    /\ frame.i > Len(frame.orbital_signals)
    /\ LET glonass == DictGet(frame.gnss_frequencies, "glonass")
       IN  /\ Len(DictGet(glonass, "orbital_signals")) = 21
           /\ Len(DictGet(glonass, "draconitic_harmonics")) = 15
           /\ DictGet(glonass, "orbital_frequency") = glonass_orbital_freq
           /\ DictGet(glonass, "orbital_peaks")
                 = calculate_orbital_peaks(glonass_sun_arg_lat, glonass_draconitic,
                                           DefaultHarmonicsRange)
    /\ Len(DictGet(frame.gnss_frequencies, "aliases")) = 32
    /\ heap[frame.tides] = TidesLiteral

-----------------------------------------------------------------------------
(* Export                                                                  *)

\* C15: in save_frequencies_to_json the file is as it was until
\* create_gnss_frequencies has returned the complete catalogue (32 aliases,
\* 21 orbital signals for each constellation); when opening, writing or
\* sizing the file has failed the function prints the error and returns
\* False, no exception leaves it, the catalogue in memory is the one the
\* engine returned, and main prints its error line and no success summary.
C15_WriteFailureReported ==
    /\ run.pc = "create" => run.file = run.before
    /\ run.pc \notin {"idle", "create"} =>
          /\ frame = NoFrame
          /\ Len(held) = 1
          /\ Deref(held[1], heap) = snaps[1]
          /\ Len(DictGet(held[1], "aliases")) = 4 * Len(TidesLiteral)
          /\ \A c \in Constellations :
                Len(DictGet(DictGet(held[1], c), "orbital_signals"))
                   = Len(nm_combinations)
    /\ run.pc # "uncaught"
    /\ (run.pc \in {"returned", "done"} /\ run.at # "none") =>
          /\ run.result = FALSE
          /\ "error_saving" \in {run.out[i] : i \in 1..Len(run.out)}
          /\ "saved" \notin {run.out[i] : i \in 1..Len(run.out)}
    /\ (run.pc \in {"returned", "done"} /\ run.at = "none") => run.result = TRUE
    /\ (run.pc = "done" /\ run.at # "none") =>
          /\ run.out[Len(run.out)] = "error_processing"
          /\ "analysis_complete" \notin {run.out[i] : i \in 1..Len(run.out)}

\* main has finished after json.dump failed with three keys written.
C15_Witness ==
    /\ run.pc = "done"
    /\ run.caller = "main"
    /\ run.at = "dump"
    /\ run.before = <<"old">>
    /\ run.file = <<"earth", "gps", "glonass">>
    /\ run.result = FALSE
    /\ run.out = <<"report", "saving", "error_saving", "error_processing">>
    /\ Deref(held[1], heap) = snaps[1]

-----------------------------------------------------------------------------
(* The bands calculate_orbital_peaks returns (under SpecPeaks)             *)

\* C16: of a band that collected more than 10 combinations the result holds
\* 10, each of them collected and none twice, in descending order of alias,
\* no dropped combination with a higher alias than a kept one, and of two
\* with the same alias the one generated earlier stands first and is the one
\* kept.
C16_TopTenHighestStable ==
    run.pc = "done" =>
       \A b \in 1..Len(run.collected) :
          LET all == run.collected[b][2]
              kept == DictGet(run.result, run.collected[b][1])
              Pos(e) == CHOOSE i \in 1..Len(all) : all[i] = e
          IN  Len(all) > KeepTop =>
                 /\ DictHas(run.result, run.collected[b][1])
                 /\ Len(kept) = KeepTop
                 /\ \A p \in 1..KeepTop : \E i \in 1..Len(all) : all[i] = kept[p]
                 /\ \A p \in 1..KeepTop, q \in 1..KeepTop :
                       p < q => /\ kept[p] # kept[q]
                                /\ ELeq(kept[q][2], kept[p][2])
                                /\ kept[q][2] = kept[p][2] => Pos(kept[p]) < Pos(kept[q])
                 /\ \A p \in 1..KeepTop, i \in 1..Len(all) :
                       (\A q \in 1..KeepTop : kept[q] # all[i])
                          => /\ ELeq(all[i][2], kept[p][2])
                             /\ all[i][2] = kept[p][2] => Pos(kept[p]) < i

\* Sun-argument frequency 0.125 with a draconitic frequency of 0 and the
\* default range: 13 combinations with the alias 0.125 for mult = 1, of which
\* the 8-day band keeps k = -6 .. 3 in that order.
C16_Witness ==
    /\ run.pc = "done"
    /\ run.sun_arg_lat_freq = Lit(125, 3)
    /\ run.draconitic_freq = EZero
    /\ Len(DictGet(run.collected, "8d_peaks")) = 13
    /\ LET kept == DictGet(run.result, "8d_peaks")
       IN  /\ Len(kept) = 10
           /\ \A p \in 1..10 : kept[p] = <<Label(1, p - 7), Lit(125, 3)>>

\* C17: calculate_orbital_peaks starts at mult = 1 and the first k of
\* range(min_harm, max_harm), which for the default range is -6, .., 6 (52
\* combinations with the four multipliers); every pass takes the next
\* (mult, k) in the order of the two loops, so each is taken once, and the
\* function returns after the last; a pass leaves the bands as they are or
\* appends one entry to one band, under the label of (mult, k), which no
\* entry of any band bears yet and no other combination shares, with the
\* alias |combined - n| for the float combined = mult * sun_arg_lat_freq
\* + k * draconitic_freq (the real value to within its three roundings) and
\* an integer n nearest to it.
C17_EachCombinationOnce ==
    [][/\ (run.pc = "idle" /\ run'.pc = "loop") =>
             /\ run'.mult = 1
             /\ run'.j = 1
             /\ run'.peaks = EmptyPeaks
             /\ run'.ks = [i \in 1..Len(run'.ks) |-> run'.harmonics_range[1] + i - 1]
             /\ Len(run'.ks) = Max(0, run'.harmonics_range[2]
                                         - run'.harmonics_range[1])
             /\ run'.harmonics_range = <<DefaultMinHarm, DefaultMaxHarm>> =>
                   /\ run'.ks = <<-6, -5, -4, -3, -2, -1, 0, 1, 2, 3, 4, 5, 6>>
                   /\ MaxMult * Len(run'.ks) = 52
             /\ \A p, q \in (1..MaxMult) \X (1..Len(run'.ks)) :
                   p # q => Label(p[1], run'.ks[p[2]]) # Label(q[1], run'.ks[q[2]])
       /\ (run.pc = "loop" /\ run'.pc = "done") =>
             /\ run.ks = <<>> \/ (run.mult = MaxMult + 1 /\ run.j = 1)
             /\ run'.collected = run.peaks
       /\ (run.pc = "loop" /\ run'.pc = "loop") =>
             LET mult == run.mult
                 k == run.ks[run.j]
                 combined == FAdd(FMul(FOfInt(mult), run.sun_arg_lat_freq),
                                  FMul(FOfInt(k), run.draconitic_freq))
                 exact == EAdd(EMul(EOfInt(mult), run.sun_arg_lat_freq),
                               EMul(EOfInt(k), run.draconitic_freq))
                 Labels(peaks) == UNION {{peaks[b][2][i][1] : i \in 1..Len(peaks[b][2])} :
                                            b \in 1..Len(peaks)}
                 changed == {b \in 1..Len(run.peaks) : run'.peaks[b] # run.peaks[b]}
             IN  /\ mult \in 1..MaxMult
                 /\ run.j \in 1..Len(run.ks)
                 /\ <<run'.mult, run'.j>> = IF run.j = Len(run.ks) THEN <<mult + 1, 1>>
                                            ELSE <<mult, run.j + 1>>
                 /\ run'.ks = run.ks
                 /\ Len(run'.peaks) = Len(run.peaks)
                 /\ Label(mult, k) \notin Labels(run.peaks)
                 /\ Cardinality(changed) <= 1
                 /\ ELeq(EDist(combined, exact),
                         EScale(EAdd(EAbs(EMul(EOfInt(mult), run.sun_arg_lat_freq)),
                                     EAbs(EMul(EOfInt(k), run.draconitic_freq))), -51))
                 /\ \A b \in changed :
                       /\ run'.peaks[b][1] = run.peaks[b][1]
                       /\ Len(run'.peaks[b][2]) = Len(run.peaks[b][2]) + 1
                       /\ SubSeq(run'.peaks[b][2], 1, Len(run.peaks[b][2]))
                             = run.peaks[b][2]
                       /\ LET entry == run'.peaks[b][2][Len(run'.peaks[b][2])]
                          IN  /\ entry[1] = Label(mult, k)
                              /\ \E n \in {FFloor(combined), FFloor(combined) + 1} :
                                    /\ ECmp(entry[2], EDist(combined, EOfInt(n))) = 0
                                    /\ ELeq(EScale(entry[2], 1), EOfInt(1))]_vars

\* The last pass of a call with the default range for GLONASS: mult = 4,
\* k = 6, after 51 passes that each added an entry.
C17_Witness ==
    /\ run.pc = "loop"
    /\ run.harmonics_range = <<DefaultMinHarm, DefaultMaxHarm>>
    /\ run.sun_arg_lat_freq = glonass_sun_arg_lat
    /\ run.draconitic_freq = glonass_draconitic
    /\ run.mult = MaxMult
    /\ run.j = Len(run.ks)
    /\ run.ks[run.j] = 6
    /\ Len(DictGet(run.peaks, "8d_peaks")) + Len(DictGet(run.peaks, "4d_peaks"))
          + Len(DictGet(run.peaks, "2-7d_peaks")) = 51

-----------------------------------------------------------------------------
(* Daily sampling                                                          *)

\* C18 as stated: for every non-negative frequency f,
\* calculate_subdaily_aliasing(f, 24) equals calculate_alias_frequency(f, 1.0).
C18_DailyOperatorsEqual ==
    (call.op = "daily_pair" /\ ESign(call.freq_cpd) >= 0)
    => call.subdaily = call.alias

\* C18: for every non-negative frequency f below 2^52 other than the float
\* before 0.5, calculate_subdaily_aliasing(f, 24) equals
\* calculate_alias_frequency(f, 1.0), at k + 0.5 too, where both are 0.5; for
\* the float before 0.5, whose sum with 0.5 rounds to 1.0, the first is 0.5
\* and the second is f.
C18_DailyOperatorsEqualButBelowHalf ==
    (/\ call.op = "daily_pair"
     /\ ESign(call.freq_cpd) >= 0
     /\ ELess(call.freq_cpd, EScale(EOfInt(1), 52)))
    => IF ECmp(call.freq_cpd, ESub(Lit(5, 1), E(0, <<1>>, -54))) = 0
       THEN /\ call.subdaily = Lit(5, 1)
            /\ call.alias = call.freq_cpd
       ELSE /\ call.subdaily = call.alias
            /\ (\E k \in 0..MaxNum : ECmp(call.freq_cpd, EAdd(EOfInt(k), Lit(5, 1))) = 0)
                  => call.alias = Lit(5, 1)

\* Both operators have returned 0.5 for 2.5 cpd, where floor(3.0) = 3 and
\* round(2.5) = 2.
C18_Witness ==
    /\ call.op = "daily_pair"
    /\ call.freq_cpd = Lit(25, 1)
    /\ FFloor(FAdd(call.freq_cpd, Lit(5, 1))) = 3
    /\ PyRound(call.freq_cpd) = 2
    /\ call.subdaily = Lit(5, 1)
    /\ call.alias = Lit(5, 1)

-----------------------------------------------------------------------------
(* The one-day and two-day bands                                           *)

\* C19: whatever the input of calculate_orbital_peaks, no alias collected
\* is above 0.5 and no period below 2 days, so the 1-day band collects
\* nothing and the result has no key '1d_peaks', and every entry of the
\* 2-day band, collected or returned, has the alias 0.5 exactly.
C19_NoOneDayBandTwoDayAtHalf ==
    /\ run.pc = "loop" =>
          /\ DictGet(run.peaks, "1d_peaks") = <<>>
          /\ \A b \in 1..Len(run.peaks) : \A i \in 1..Len(run.peaks[b][2]) :
                /\ ELeq(run.peaks[b][2][i][2], Lit(5, 1))
                /\ ELeq(EOfInt(2), PeriodOf(run.peaks[b][2][i][2]))
          /\ \A i \in 1..Len(DictGet(run.peaks, "2d_peaks")) :
                DictGet(run.peaks, "2d_peaks")[i][2] = Lit(5, 1)
    /\ run.pc = "done" =>
          /\ ~DictHas(run.result, "1d_peaks")
          /\ DictHas(run.result, "2d_peaks") =>
                \A i \in 1..Len(DictGet(run.result, "2d_peaks")) :
                   DictGet(run.result, "2d_peaks")[i][2] = Lit(5, 1)

\* Sun-argument frequency 0.125 with a draconitic frequency of 0: the
\* combinations of mult = 4 have the alias 0.5 and fill the 2-day band, of
\* which the result keeps ten.
C19_Witness ==
    /\ run.pc = "done"
    /\ run.sun_arg_lat_freq = Lit(125, 3)
    /\ run.draconitic_freq = EZero
    /\ Len(DictGet(run.collected, "2d_peaks")) = 13
    /\ Len(DictGet(run.result, "2d_peaks")) = 10
    /\ DictGet(run.result, "2d_peaks")[1] = <<"4f_u-6f_d", Lit(5, 1)>>
    /\ ~DictHas(run.result, "1d_peaks")

=============================================================================
